---- MODULE Spec2Model ----
(***************************************************************************)
(* stitcher: locate an ffmpeg binary, list the audio files of a directory, *)
(* write a concat manifest, run ffmpeg on it and remove the manifest.      *)
(*                                                                         *)
(* Text is modelled as a sequence of chunks: a chunk is a run of bytes     *)
(* that holds no separator.  "." is the dot, "/" the path separator,       *)
(* "\n" a newline byte, and "xFF" a run of bytes that is not valid UTF-8.  *)
(* Option values are sequences: None is <<>> and Some(x) is <<x>>.         *)
(***************************************************************************)
EXTENDS Integers, Sequences, FiniteSets, TLC

VARIABLES
    pc,               \* position of the run in main / stitch_files
    cli_args,         \* parsed CliArgs: [input_path, out]
    paths_to_check,   \* argument of find_valid_ffmpeg_binary
    probe_idx,        \* position of the `for path in &paths_to_check` loop
    probes,           \* log of the `-h` probes run so far: [idx, path, outcome]
    ffmpeg_bin_path,  \* Option: the path find_valid_ffmpeg_binary returned
    output_file_name, \* Option: the resolved output path
    read_dir_result,  \* what std::fs::read_dir gave: [state, entries]
    files_to_stitch,  \* the Vec look_for_files returned
    file_idx,         \* position of the `for file in files` loop
    wip,              \* inputs_file_contents under construction
    manifest,         \* Option: content of ./_stitcher_tmp_.txt on disk
    write_res,        \* "none" | "ok" | "fail": outcome of std::fs::write
    tool_res,         \* "none" | "spawn_fail" | "exit0" | "exit1"
    output_created,   \* the tool created the output file
    printed,          \* lines printed on stdout
    remove_res,       \* "none" | "ok" | "fail": outcome of std::fs::remove_file
    stitch_result,    \* Option: the PathBuf stitch_files returned
    failed_at,        \* "none", or the stage that aborted the run
    exit_code,        \* -1 while running, then the process exit status
    err_msg           \* the error or panic message, as chunks

vars == <<pc, cli_args, paths_to_check, probe_idx, probes, ffmpeg_bin_path,
          output_file_name, read_dir_result, files_to_stitch, file_idx, wip,
          manifest, write_res, tool_res, output_created, printed, remove_res,
          stitch_result, failed_at, exit_code, err_msg>>

\* ---------------------------------------------------------------- bounds
MaxEntries == 2      \* most entries a listed directory holds
MaxCandidates == 3   \* longest candidate list handed to the locator alone

\* ---------------------------------------------------------------- values
None == <<>>
Some(x) == <<x>>

NonUtf8 == "xFF"
Dot == "."
Sep == "/"
Newline == "\n"

Range(s) == {s[i] : i \in 1..Len(s)}

\* The candidate list main passes to the locator.
MainCandidates == <<"/bin/ffmpeg", "./vendor/ffmpeg/ffmpeg">>

ProbeOutcomes == {"spawn_fail", "exit1", "exit0"}

InputDirs == {<<"snd">>, <<NonUtf8>>}

OutArgs == {None, Some(<<"result", Dot, "wav">>)}

\* Entries a directory listing can yield: file names of regular files and of
\* directories, and one entry whose read failed.
FileNames == {
    <<"a", Dot, "mp3">>,
    <<"b", Dot, "wav">>,
    <<"a", Dot, "MP3">>,
    <<"a">>,
    <<Dot, "mp3">>,
    <<"a", Dot>>,
    <<Dot, Dot, "mp3">>,
    <<"a", Dot, "mp3", Dot, "txt">>,
    <<"a", Dot, "txt", Dot, "wav">>,
    <<NonUtf8, Dot, "mp3">>,
    <<"a", Dot, NonUtf8>>,
    <<"a", Newline, "b", Dot, "wav">> }

DirNames == { <<"d", Dot, "mp3">>, <<"d">> }

DirEntries ==
    {[ok |-> TRUE, name |-> n, kind |-> "file"] : n \in FileNames}
    \cup {[ok |-> TRUE, name |-> n, kind |-> "dir"] : n \in DirNames}
    \cup {[ok |-> FALSE, name |-> <<>>, kind |-> "err"]}

SeqsUpTo(S, n) == UNION {[1..m -> S] : m \in 0..n}

Listings == SeqsUpTo(DirEntries, MaxEntries)

CandidateLists == SeqsUpTo(Range(MainCandidates), MaxCandidates)

\* ------------------------------------------------------- std::path, str
\* Index of the last c in s, 0 when s holds none.
last_index_of(s, c) ==
    LET I == {i \in 1..Len(s) : s[i] = c}
    IN  IF I = {} THEN 0 ELSE CHOOSE i \in I : \A j \in I : j <= i

\* PathBuf::join of a directory and an entry's file name (DirEntry::path).
join(dir, name) == dir \o <<Sep>> \o name

\* Path::file_name: the last component, None when it is `..`.
file_name(path) ==
    LET n == SubSeq(path, last_index_of(path, Sep) + 1, Len(path))
    IN  IF n = <<>> \/ n = <<Dot, Dot>> THEN None ELSE Some(n)

\* Path::extension: the part of the file name after its last dot; None when
\* the name has no dot, or when nothing precedes that dot.
extension(path) ==
    LET fn == file_name(path)
    IN  IF fn = None THEN None
        ELSE LET n == fn[1]
                 i == last_index_of(n, Dot)
             IN  IF i = 0 THEN None
                 ELSE IF i = 1 THEN None
                 ELSE Some(SubSeq(n, i + 1, Len(n)))

\* OsStr::to_str / Path::to_str: None unless the bytes are valid UTF-8.
to_str(s) == IF \E i \in 1..Len(s) : s[i] = NonUtf8 THEN None ELSE Some(s)

\* Mutant: `output.is_ok()`, the exit status is not looked at.
probe_ok_any_status(outcome) == outcome # "spawn_fail"

\* `output.is_ok_and(|x| x.status.success())`
probe_ok(outcome) == outcome = "exit0"

\* `{:?}` of a Vec<PathBuf>: [ "p1", "p2" ]
RECURSIVE debug_items(_)
debug_items(paths) ==
    IF paths = <<>> THEN <<>>
    ELSE <<"\"", Head(paths), "\"">>
         \o (IF Len(paths) > 1 THEN <<", ">> ELSE <<>>)
         \o debug_items(Tail(paths))

debug_fmt(paths) == <<"[">> \o debug_items(paths) \o <<"]">>

locator_error(paths) ==
    <<"failed to find a valid ffmpeg binary. checked paths: ">> \o debug_fmt(paths)

\* ------------------------------------------------------- look_for_files
\* Mutant: the extension is matched without regard to case.
filter_supported_extensions_nocase(path) ==
    LET e == extension(path)
    IN  IF e = None THEN None
        ELSE LET t == to_str(e[1])
             IN  IF t = None THEN None
                 ELSE IF t[1] \in {<<"mp3">>, <<"wav">>, <<"MP3">>, <<"WAV">>}
                      THEN Some(path)
                 ELSE None

\* Mutant: an extension that is not text is let through.
filter_supported_extensions_undecoded(path) ==
    LET e == extension(path)
    IN  IF e = None THEN None
        ELSE LET t == to_str(e[1])
             IN  IF t = None THEN Some(path)
                 ELSE IF t[1] = <<"mp3">> \/ t[1] = <<"wav">> THEN Some(path)
                 ELSE None

filter_supported_extensions(path) ==
    LET e == extension(path)
    IN  IF e = None THEN None
        ELSE LET t == to_str(e[1])
             IN  IF t = None THEN None
                 ELSE IF t[1] = <<"mp3">> \/ t[1] = <<"wav">> THEN Some(path)
                 ELSE None

\* .filter_map(|x| x.ok()).map(|x| x.path()).filter_map(filter_supported_extensions)
RECURSIVE collect_entries(_, _)
collect_entries(in_path, entries) ==
    IF entries = <<>> THEN <<>>
    ELSE LET x == Head(entries)
             kept == IF x.ok
                     THEN filter_supported_extensions(join(in_path, x.name))
                     ELSE None
         IN  kept \o collect_entries(in_path, Tail(entries))

\* rd is the result of read_dir: state "err", or "ok" with the entries.
look_for_files(in_path, rd) ==
    IF rd.state = "err" THEN <<>> ELSE collect_entries(in_path, rd.entries)

ReadDirResults ==
    {[state |-> "err", entries |-> <<>>]}
    \cup {[state |-> "ok", entries |-> l] : l \in Listings}

\* ------------------------------------------------------------- stitching
inputs_file_path == <<Dot, Sep, "_stitcher_tmp_", Dot, "txt">>

\* Mutant: the line is not ended.
push_line_unterminated(acc, file) == acc \o <<"file ">> \o file

\* One turn of the manifest loop for a path already rendered as text.
push_line(acc, file) == acc \o <<"file ">> \o file \o <<Newline>>

\* output_path.as_os_str() and PathBuf::from of it
as_os_str(p) == p

\* Mutant: the path returned is built from the other path of the function.
path_buf_from_inputs(s) == inputs_file_path

path_buf_from(s) == s

default_output_name == <<"STITCH_OUTPUT_", "01-Jan-2024 00:00", Dot, "wav">>

\* ------------------------------------------------------------------ Init
\* ./_stitcher_tmp_.txt may be left over from an earlier run.
StartManifests == {None, Some(<<"file ", "old", Dot, "wav", Newline>>)}

InitCommon ==
    /\ cli_args = None
    /\ probe_idx = 1
    /\ probes = <<>>
    /\ ffmpeg_bin_path = None
    /\ output_file_name = None
    /\ read_dir_result = [state |-> "none", entries |-> <<>>]
    /\ files_to_stitch = <<>>
    /\ file_idx = 1
    /\ wip = <<>>
    /\ manifest \in StartManifests
    /\ write_res = "none"
    /\ tool_res = "none"
    /\ output_created = FALSE
    /\ printed = <<>>
    /\ remove_res = "none"
    /\ stitch_result = None
    /\ failed_at = "none"
    /\ exit_code = -1
    /\ err_msg = <<>>

Init ==
    /\ pc = "ParseConfig"
    /\ paths_to_check = MainCandidates
    /\ InitCommon

\* The locator called on its own, as the tests call it, on any candidate list.
InitLocator ==
    /\ pc = "LocateBinary"
    /\ paths_to_check \in CandidateLists
    /\ InitCommon

\* --------------------------------------------------------------- aborts
\* `return Err(msg)` / `?` in main: the runtime prints msg and exits 1.
\* A panic exits 101.  clap exits 2 on a usage error.
Abort(stage, code, msg) ==
    /\ pc' = "Failed"
    /\ failed_at' = stage
    /\ exit_code' = code
    /\ err_msg' = msg

\* -------------------------------------------------------------- actions
\* main, line 20: CliArgs::parse()
ParseConfig ==
    /\ pc = "ParseConfig"
    /\ \E dir \in InputDirs, out \in OutArgs :
         cli_args' = Some([input_path |-> dir, out |-> out])
    /\ pc' = "LocateBinary"
    /\ UNCHANGED <<paths_to_check, probe_idx, probes, ffmpeg_bin_path,
                   output_file_name, read_dir_result, files_to_stitch,
                   file_idx, wip, manifest, write_res, tool_res,
                   output_created, printed, remove_res, stitch_result,
                   failed_at, exit_code, err_msg>>

\* CliArgs::parse() on a command line without --input-path: clap exits.
ParseConfigError ==
    /\ pc = "ParseConfig"
    /\ Abort("ParseConfig", 2, <<"error: the following required arguments were not provided">>)
    /\ UNCHANGED <<cli_args, paths_to_check, probe_idx, probes,
                   ffmpeg_bin_path, output_file_name, read_dir_result,
                   files_to_stitch, file_idx, wip, manifest, write_res,
                   tool_res, output_created, printed, remove_res,
                   stitch_result>>

\* find_valid_ffmpeg_binary: one turn of the loop, `-h` probe of one path.
ProbeCandidate ==
    /\ pc = "LocateBinary"
    /\ probe_idx <= Len(paths_to_check)
    /\ \E outcome \in ProbeOutcomes :
         LET path == paths_to_check[probe_idx]
         IN  /\ probes' = Append(probes, [idx |-> probe_idx, path |-> path,
                                          outcome |-> outcome])
             /\ IF probe_ok(outcome)
                THEN /\ ffmpeg_bin_path' = Some(path)
                     /\ pc' = "ResolveOutputPath"
                     /\ UNCHANGED probe_idx
                ELSE /\ probe_idx' = probe_idx + 1
                     /\ UNCHANGED <<pc, ffmpeg_bin_path>>
    /\ UNCHANGED <<cli_args, paths_to_check, output_file_name,
                   read_dir_result, files_to_stitch, file_idx, wip, manifest,
                   write_res, tool_res, output_created, printed, remove_res,
                   stitch_result, failed_at, exit_code, err_msg>>

\* find_valid_ffmpeg_binary: the loop ran out; Err, which `?` returns from main.
LocatorExhausted ==
    /\ pc = "LocateBinary"
    /\ probe_idx > Len(paths_to_check)
    /\ Abort("LocateBinary", 1, locator_error(paths_to_check))
    /\ UNCHANGED <<cli_args, paths_to_check, probe_idx, probes,
                   ffmpeg_bin_path, output_file_name, read_dir_result,
                   files_to_stitch, file_idx, wip, manifest, write_res,
                   tool_res, output_created, printed, remove_res,
                   stitch_result>>

\* main, lines 27-33
ResolveOutputPath ==
    /\ pc = "ResolveOutputPath"
    /\ cli_args # None
    /\ output_file_name' =
         Some(IF cli_args[1].out # None THEN cli_args[1].out[1]
              ELSE default_output_name)
    /\ pc' = "DiscoverFiles"
    /\ UNCHANGED <<cli_args, paths_to_check, probe_idx, probes,
                   ffmpeg_bin_path, read_dir_result, files_to_stitch,
                   file_idx, wip, manifest, write_res, tool_res,
                   output_created, printed, remove_res, stitch_result,
                   failed_at, exit_code, err_msg>>

\* main, line 35: look_for_files(cli_args.input_path)
DiscoverFiles ==
    /\ pc = "DiscoverFiles"
    /\ \E rd \in ReadDirResults :
         /\ read_dir_result' = rd
         /\ files_to_stitch' = look_for_files(cli_args[1].input_path, rd)
    /\ pc' = "EmptyCheck"
    /\ UNCHANGED <<cli_args, paths_to_check, probe_idx, probes,
                   ffmpeg_bin_path, output_file_name, file_idx, wip, manifest,
                   write_res, tool_res, output_created, printed, remove_res,
                   stitch_result, failed_at, exit_code, err_msg>>

\* Mutant: the length of the list is not checked.
EmptyCheckMissing ==
    /\ pc = "EmptyCheck"
    /\ pc' = "BuildManifest"
    /\ UNCHANGED <<cli_args, paths_to_check, probe_idx, probes,
                   ffmpeg_bin_path, output_file_name, read_dir_result,
                   files_to_stitch, file_idx, wip, manifest, write_res,
                   tool_res, output_created, printed, remove_res,
                   stitch_result, failed_at, exit_code, err_msg>>

\* main, lines 36-38
EmptyCheck ==
    /\ pc = "EmptyCheck"
    /\ IF Len(files_to_stitch) = 0
       THEN Abort("EmptyCheck", 1, <<"found no files!">>)
       ELSE /\ pc' = "BuildManifest"
            /\ UNCHANGED <<failed_at, exit_code, err_msg>>
    /\ UNCHANGED <<cli_args, paths_to_check, probe_idx, probes,
                   ffmpeg_bin_path, output_file_name, read_dir_result,
                   files_to_stitch, file_idx, wip, manifest, write_res,
                   tool_res, output_created, printed, remove_res,
                   stitch_result>>

\* stitch_files, lines 99-108: one turn of `for file in files`
BuildManifestLine ==
    /\ pc = "BuildManifest"
    /\ file_idx <= Len(files_to_stitch)
    /\ LET t == to_str(files_to_stitch[file_idx])
       IN  IF t = None
           THEN /\ Abort("BuildManifest", 101,
                         <<"failed to convert the file paths into a single string">>)
                /\ UNCHANGED <<wip, file_idx>>
           ELSE /\ wip' = push_line(wip, t[1])
                /\ file_idx' = file_idx + 1
                /\ UNCHANGED <<pc, failed_at, exit_code, err_msg>>
    /\ UNCHANGED <<cli_args, paths_to_check, probe_idx, probes,
                   ffmpeg_bin_path, output_file_name, read_dir_result,
                   files_to_stitch, manifest, write_res, tool_res,
                   output_created, printed, remove_res, stitch_result>>

\* stitch_files, lines 109-110: the loop is over, wip is the content
ManifestBuilt ==
    /\ pc = "BuildManifest"
    /\ file_idx > Len(files_to_stitch)
    /\ pc' = "WriteManifest"
    /\ UNCHANGED <<cli_args, paths_to_check, probe_idx, probes,
                   ffmpeg_bin_path, output_file_name, read_dir_result,
                   files_to_stitch, file_idx, wip, manifest, write_res,
                   tool_res, output_created, printed, remove_res,
                   stitch_result, failed_at, exit_code, err_msg>>

\* Mutant: the result of std::fs::write is dropped.
WriteManifestUnchecked ==
    /\ pc = "WriteManifest"
    /\ \E r \in {"ok", "fail"} :
         /\ write_res' = r
         /\ manifest' \in (IF r = "ok" THEN {Some(wip)} ELSE {manifest, Some(<<>>)})
    /\ pc' = "SpawnTool"
    /\ UNCHANGED <<cli_args, paths_to_check, probe_idx, probes,
                   ffmpeg_bin_path, output_file_name, read_dir_result,
                   files_to_stitch, file_idx, wip, tool_res, output_created,
                   printed, remove_res, stitch_result, failed_at, exit_code,
                   err_msg>>

\* stitch_files, lines 112-114: std::fs::write; a failed write leaves the
\* file as it was or truncated.
WriteManifest ==
    /\ pc = "WriteManifest"
    /\ \E r \in {"ok", "fail"} :
         /\ write_res' = r
         /\ IF r = "ok"
            THEN /\ manifest' = Some(wip)
                 /\ pc' = "SpawnTool"
                 /\ UNCHANGED <<failed_at, exit_code, err_msg>>
            ELSE /\ manifest' \in {manifest, Some(<<>>)}
                 /\ Abort("WriteManifest", 101,
                          <<"failed to write lines to the temp file!: ", "io error">>)
    /\ UNCHANGED <<cli_args, paths_to_check, probe_idx, probes,
                   ffmpeg_bin_path, output_file_name, read_dir_result,
                   files_to_stitch, file_idx, wip, tool_res, output_created,
                   printed, remove_res, stitch_result>>

\* stitch_files, lines 118-131: Command::status() spawns the tool and waits;
\* expect() panics when it could not be spawned.
SpawnTool ==
    /\ pc = "SpawnTool"
    /\ \E r \in {"spawn_fail", "exit0", "exit1"} :
         /\ tool_res' = r
         /\ IF r = "spawn_fail"
            THEN /\ Abort("SpawnTool", 101,
                          <<"did not concatenate the files: ffmpeg command failed">>)
                 /\ UNCHANGED output_created
            ELSE /\ pc' = "CheckStatus"
                 /\ output_created' \in (IF r = "exit0" THEN {TRUE} ELSE BOOLEAN)
                 /\ UNCHANGED <<failed_at, exit_code, err_msg>>
    /\ UNCHANGED <<cli_args, paths_to_check, probe_idx, probes,
                   ffmpeg_bin_path, output_file_name, read_dir_result,
                   files_to_stitch, file_idx, wip, manifest, write_res,
                   printed, remove_res, stitch_result>>

\* stitch_files, lines 135-138: output.exit_ok()
CheckStatus ==
    /\ pc = "CheckStatus"
    /\ IF tool_res # "exit0"
       THEN /\ Abort("CheckStatus", 101,
                     <<"did not concatenate the files: exit not ok: ", tool_res>>)
            /\ UNCHANGED printed
       ELSE /\ printed' = Append(printed, "successfully concatenated the files")
            /\ pc' = "CleanupManifest"
            /\ UNCHANGED <<failed_at, exit_code, err_msg>>
    /\ UNCHANGED <<cli_args, paths_to_check, probe_idx, probes,
                   ffmpeg_bin_path, output_file_name, read_dir_result,
                   files_to_stitch, file_idx, wip, manifest, write_res,
                   tool_res, output_created, remove_res, stitch_result>>

\* Mutant: the result of std::fs::remove_file is dropped.
CleanupManifestUnchecked ==
    /\ pc = "CleanupManifest"
    /\ \E r \in {"ok", "fail"} :
         /\ remove_res' = r
         /\ manifest' = IF r = "ok" THEN None ELSE manifest
    /\ stitch_result' = Some(path_buf_from(as_os_str(output_file_name[1])))
    /\ pc' = "Done"
    /\ exit_code' = 0
    /\ UNCHANGED <<cli_args, paths_to_check, probe_idx, probes,
                   ffmpeg_bin_path, output_file_name, read_dir_result,
                   files_to_stitch, file_idx, wip, write_res, tool_res,
                   output_created, printed, failed_at, err_msg>>

\* stitch_files, lines 142-148, and main, line 42: remove the manifest,
\* return the output path, main returns Ok(()).
CleanupManifest ==
    /\ pc = "CleanupManifest"
    /\ \E r \in {"ok", "fail"} :
         /\ remove_res' = r
         /\ IF r = "ok"
            THEN /\ manifest' = None
                 /\ stitch_result' =
                      Some(path_buf_from(as_os_str(output_file_name[1])))
                 /\ pc' = "Done"
                 /\ exit_code' = 0
                 /\ UNCHANGED <<failed_at, err_msg>>
            ELSE /\ Abort("CleanupManifest", 101,
                          <<"failed to clean up the temporary file! ", "io error">>)
                 /\ UNCHANGED <<manifest, stitch_result>>
    /\ UNCHANGED <<cli_args, paths_to_check, probe_idx, probes,
                   ffmpeg_bin_path, output_file_name, read_dir_result,
                   files_to_stitch, file_idx, wip, write_res, tool_res,
                   output_created, printed>>

\* ------------------------------------------------------- specifications
Next ==
    \/ ParseConfig
    \/ ParseConfigError
    \/ ProbeCandidate
    \/ LocatorExhausted
    \/ ResolveOutputPath
    \/ DiscoverFiles
    \/ EmptyCheck
    \/ BuildManifestLine
    \/ ManifestBuilt
    \/ WriteManifest
    \/ SpawnTool
    \/ CheckStatus
    \/ CleanupManifest

Spec == Init /\ [][Next]_vars

\* find_valid_ffmpeg_binary alone
NextLocator ==
    \/ ProbeCandidate
    \/ LocatorExhausted

SpecLocator == InitLocator /\ [][NextLocator]_vars

\* ============================================================== claims
Terminal == {"Done", "Failed"}

IsCandidate(c) == c \in Range(MainCandidates)

\* C1: the locator probes the candidates in list order, each at most once and
\* none after a probe that exited 0; it returns Ok with the first candidate
\* whose probe exited 0, and when no probe exited 0 (the empty list included)
\* it returns Err with a message that enumerates every path of the list.
C1_LocatorFirstSuccess ==
    /\ Len(probes) <= Len(paths_to_check)
    /\ \A j \in 1..Len(probes) :
         /\ probes[j].idx = j
         /\ probes[j].path = paths_to_check[j]
         /\ j < Len(probes) => probes[j].outcome # "exit0"
    /\ pc = "LocateBinary" =>
         /\ \A j \in 1..Len(probes) : probes[j].outcome # "exit0"
         /\ ffmpeg_bin_path = None
    /\ pc # "LocateBinary" =>
         IF \E j \in 1..Len(probes) : probes[j].outcome = "exit0"
         THEN /\ probes[Len(probes)].outcome = "exit0"
              /\ ffmpeg_bin_path = Some(paths_to_check[Len(probes)])
              /\ pc = "ResolveOutputPath"
              /\ err_msg = <<>>
         ELSE /\ Len(probes) = Len(paths_to_check)
              /\ ffmpeg_bin_path = None
              /\ pc = "Failed"
              /\ exit_code > 0
              /\ SelectSeq(err_msg, IsCandidate) = paths_to_check

\* C1 witness: the first candidate could not be spawned, the second exited 0
\* and was returned, a third candidate was never probed.
C1_Witness ==
    /\ Len(paths_to_check) = 3
    /\ Len(probes) = 2
    /\ probes[1].outcome = "spawn_fail"
    /\ probes[2].outcome = "exit0"
    /\ ffmpeg_bin_path = Some(paths_to_check[2])
    /\ pc = "ResolveOutputPath"

\* ----------------------------------------------------------------- C2
Listed == read_dir_result.state # "none"

InputPath == cli_args[1].input_path

PathsOf(entries) == [i \in 1..Len(entries) |-> join(InputPath, entries[i].name)]

\* The text after the last dot of a file name, None for a name without a dot.
TextAfterLastDot(name) ==
    LET i == last_index_of(name, Dot)
    IN  IF i = 0 THEN None ELSE Some(SubSeq(name, i + 1, Len(name)))

SupportedText == {Some(<<"mp3">>), Some(<<"wav">>)}

KeptByLastDot(e) == e.ok /\ TextAfterLastDot(e.name) \in SupportedText

\* The same, for names in which something precedes the last dot.
KeptByLastDotAfterStem(e) ==
    /\ e.ok
    /\ last_index_of(e.name, Dot) > 1
    /\ TextAfterLastDot(e.name) \in SupportedText

\* C2 as stated: look_for_files returns exactly the listed entries whose text
\* after the last dot of the file name is `mp3` or `wav`, in listing order.
C2_AsStated ==
    Listed =>
        files_to_stitch = PathsOf(SelectSeq(read_dir_result.entries, KeptByLastDot))

\* C2 amended: look_for_files returns exactly the listed entries whose file
\* name has something before its last dot and the text `mp3` or `wav` after
\* it, in listing order; a name that is only a dot and an extension (`.mp3`)
\* is dropped like a name without extension.
C2_ExactSubsequence ==
    Listed =>
        files_to_stitch =
            PathsOf(SelectSeq(read_dir_result.entries, KeptByLastDotAfterStem))

\* C2 witness: a listing of `.mp3` and `b.wav` gave back `b.wav` alone.
C2_Witness ==
    /\ Listed
    /\ Len(read_dir_result.entries) = 2
    /\ read_dir_result.entries[1].name = <<Dot, "mp3">>
    /\ read_dir_result.entries[2].name = <<"b", Dot, "wav">>
    /\ files_to_stitch = <<join(InputPath, <<"b", Dot, "wav">>)>>

\* ----------------------------------------------------------------- C3
\* C3: once the discovered file list is empty (nothing supported listed, or
\* the directory could not be opened), the manifest is never written, the
\* tool never spawned and the output never created, and the run ends with
\* the error `found no files!` and a non-zero exit status.
C3_EmptySetAborts ==
    (Listed /\ files_to_stitch = <<>>) =>
        /\ pc \in {"EmptyCheck", "Failed"}
        /\ wip = <<>>
        /\ write_res = "none"
        /\ tool_res = "none"
        /\ ~output_created
        /\ remove_res = "none"
        /\ pc = "Failed" => /\ err_msg = <<"found no files!">>
                            /\ exit_code > 0

\* C3 witness: the directory could not be opened and the run has ended.
C3_Witness ==
    /\ read_dir_result.state = "err"
    /\ files_to_stitch = <<>>
    /\ pc = "Failed"
    /\ err_msg = <<"found no files!">>

\* ----------------------------------------------------------------- C4
\* The lines of a text: the runs of chunks that end at each newline (and a
\* last run without newline, if any).
RECURSIVE split_lines(_)
split_lines(text) ==
    IF text = <<>> THEN <<>>
    ELSE LET I == {i \in 1..Len(text) : text[i] = Newline}
         IN  IF I = {} THEN <<text>>
             ELSE LET i == CHOOSE i \in I : \A j \in I : i <= j
                  IN  <<SubSeq(text, 1, i - 1)>>
                      \o split_lines(SubSeq(text, i + 1, Len(text)))

IsText(s) == \A i \in 1..Len(s) : s[i] # NonUtf8

HasNoNewline(s) == \A i \in 1..Len(s) : s[i] # Newline

ManifestOnDisk == write_res = "ok" /\ remove_res # "ok"

OneLinePerFile ==
    /\ manifest # None
    /\ manifest[1] # <<>> => manifest[1][Len(manifest[1])] = Newline
    /\ LET lines == split_lines(manifest[1])
       IN  /\ Len(lines) = Len(files_to_stitch)
           /\ \A i \in 1..Len(lines) : lines[i] = <<"file ">> \o files_to_stitch[i]

\* C4 as stated: for a non-empty list of paths that are all text, the written
\* manifest has exactly one line per file, line i being `file `, the i-th
\* path and a newline.
C4_AsStated ==
    (/\ ManifestOnDisk
     /\ files_to_stitch # <<>>
     /\ \A i \in 1..Len(files_to_stitch) : IsText(files_to_stitch[i]))
    => OneLinePerFile

\* C4 amended: the same for a list of paths that are all text and hold no
\* newline character.
C4_ManifestLines ==
    (/\ ManifestOnDisk
     /\ files_to_stitch # <<>>
     /\ \A i \in 1..Len(files_to_stitch) :
          IsText(files_to_stitch[i]) /\ HasNoNewline(files_to_stitch[i]))
    => OneLinePerFile

\* C4 witness: a manifest of two files is on disk.
C4_Witness ==
    /\ ManifestOnDisk
    /\ Len(files_to_stitch) = 2
    /\ files_to_stitch[1] # files_to_stitch[2]
    /\ \A i \in 1..2 : HasNoNewline(files_to_stitch[i])
    /\ manifest = Some(<<"file ">> \o files_to_stitch[1] \o <<Newline>>
                       \o <<"file ">> \o files_to_stitch[2] \o <<Newline>>)

\* ----------------------------------------------------------------- C5
SuccessLine == "successfully concatenated the files"

\* The manifest is written before the tool is spawned and removed only after
\* the tool's exit status was checked.
ManifestBracketsTool ==
    /\ tool_res # "none" => write_res = "ok"
    /\ remove_res # "none" => tool_res = "exit0" /\ printed = <<SuccessLine>>

ReachedDone ==
    /\ pc = "Done"
    /\ manifest = None
    /\ stitch_result = output_file_name
    /\ exit_code = 0

\* C5 as stated: a run in which a binary was located, the file list is not
\* empty and the tool exited 0 ends in Done, with the manifest removed,
\* stitch_files returning the output path it was given, and exit status 0.
C5_AsStated ==
    /\ ManifestBracketsTool
    /\ (/\ pc \in Terminal
        /\ ffmpeg_bin_path # None
        /\ files_to_stitch # <<>>
        /\ tool_res = "exit0") => ReachedDone

\* C5 amended: the same for a run in which, besides, the removal of the
\* manifest succeeds; such a run does not stop before it has ended.
C5_SuccessfulRun ==
    /\ ManifestBracketsTool
    /\ (/\ pc \in Terminal
        /\ ffmpeg_bin_path # None
        /\ files_to_stitch # <<>>
        /\ tool_res = "exit0"
        /\ remove_res = "ok") => ReachedDone
    /\ (tool_res = "exit0" /\ pc \notin Terminal) =>
          /\ pc \in {"CheckStatus", "CleanupManifest"}
          /\ manifest = Some(wip)
    /\ pc = "Done" => remove_res = "ok"

\* C5 witness: a finished run of two files with the output path from --out.
C5_Witness ==
    /\ pc = "Done"
    /\ Len(files_to_stitch) = 2
    /\ tool_res = "exit0"
    /\ remove_res = "ok"
    /\ manifest = None
    /\ stitch_result = Some(<<"result", Dot, "wav">>)
    /\ exit_code = 0

\* ----------------------------------------------------------------- C6
\* C6: when the tool was spawned and exited non-zero, the run aborts with a
\* failure that reports the exit status, and the removal of the manifest has
\* been attempted by the time the process ends.
C6_CleanupAfterToolFailure ==
    (pc \in Terminal /\ tool_res = "exit1") =>
        /\ pc = "Failed"
        /\ exit_code > 0
        /\ tool_res \in Range(err_msg)
        /\ remove_res # "none"

\* ----------------------------------------------------------------- C7
NoStageFailed ==
    /\ cli_args # None
    /\ ffmpeg_bin_path # None
    /\ files_to_stitch # <<>>
    /\ \A i \in 1..Len(files_to_stitch) : IsText(files_to_stitch[i])
    /\ write_res = "ok"
    /\ tool_res = "exit0"
    /\ remove_res = "ok"

Stages == <<"ParseConfig", "LocateBinary", "ResolveOutputPath", "DiscoverFiles",
            "EmptyCheck", "BuildManifest", "WriteManifest", "SpawnTool",
            "CheckStatus", "CleanupManifest", "Done">>

Rank(stage) == CHOOSE i \in 1..Len(Stages) : Stages[i] = stage

\* What a stage leaves behind once it has run.
Entered(stage) ==
    CASE stage = "ParseConfig" -> TRUE
      [] stage = "LocateBinary" -> probes # <<>> \/ failed_at = "LocateBinary"
      [] stage = "ResolveOutputPath" -> output_file_name # None
      [] stage = "DiscoverFiles" -> read_dir_result.state # "none"
      [] stage = "EmptyCheck" -> failed_at = "EmptyCheck" \/ wip # <<>>
      [] stage = "BuildManifest" -> wip # <<>> \/ failed_at = "BuildManifest"
      [] stage = "WriteManifest" -> write_res # "none"
      [] stage = "SpawnTool" -> tool_res # "none"
      [] stage = "CheckStatus" -> printed # <<>> \/ failed_at = "CheckStatus"
      [] stage = "CleanupManifest" -> remove_res # "none"
      [] stage = "Done" -> stitch_result # None

Position == IF pc = "Failed" THEN Rank(failed_at) ELSE Rank(pc)

StageStep ==
    /\ pc \notin Terminal
    /\ pc' # pc => pc' = "Failed" \/ Rank(pc') = Rank(pc) + 1
    /\ pc' = "Failed" => failed_at' = pc

\* C8: the stages run in the fixed order, one after the other and never
\* backwards; a stage that fails ends the run, and no later stage has left a
\* trace: after a locator failure the directory was not listed and no
\* manifest written, after a failed manifest write the tool was not spawned.
C8_StageOrder ==
    /\ [][StageStep]_vars
    /\ [](\A i \in 1..Len(Stages) : Entered(Stages[i]) => i <= Position)
    /\ [](failed_at = "LocateBinary" =>
             read_dir_result.state = "none" /\ write_res = "none")
    /\ [](write_res = "fail" => tool_res = "none" /\ pc = "Failed")

\* C8 witness: the manifest write failed and the run ended there.
C8_Witness ==
    /\ pc = "Failed"
    /\ failed_at = "WriteManifest"
    /\ write_res = "fail"
    /\ tool_res = "none"

\* ----------------------------------------------------------------- C9
\* C9 as stated: every path look_for_files returns is text, and the manifest
\* loop never aborts on a path that is not.
C9_AsStated ==
    /\ \A i \in 1..Len(files_to_stitch) : IsText(files_to_stitch[i])
    /\ failed_at # "BuildManifest"

LastDotOf(path) == last_index_of(path, Dot)

ExtensionIsText(path) ==
    /\ LastDotOf(path) > 0
    /\ IsText(SubSeq(path, LastDotOf(path) + 1, Len(path)))

\* C9 amended: look_for_files drops every entry whose extension cannot be
\* decoded to text, so the extension of every path it returns is text; the
\* rest of a returned path need not be, and the manifest loop aborts only on
\* a returned path that is not text.
C9_ExtensionDecoded ==
    /\ \A i \in 1..Len(files_to_stitch) : ExtensionIsText(files_to_stitch[i])
    /\ Listed =>
         \A j \in 1..Len(read_dir_result.entries) :
            LET e == read_dir_result.entries[j]
            IN  (e.ok /\ ~ExtensionIsText(e.name)) =>
                    join(InputPath, e.name) \notin Range(files_to_stitch)
    /\ failed_at = "BuildManifest" =>
         /\ file_idx \in 1..Len(files_to_stitch)
         /\ ~IsText(files_to_stitch[file_idx])
    /\ write_res # "none" =>
         \A i \in 1..Len(files_to_stitch) : IsText(files_to_stitch[i])

\* C9 witness: `a.xFF` was listed and dropped, `xFF.mp3` was listed and
\* returned, and the manifest loop aborted on it.
C9_Witness ==
    /\ Listed
    /\ Len(read_dir_result.entries) = 2
    /\ read_dir_result.entries[1].name = <<"a", Dot, NonUtf8>>
    /\ read_dir_result.entries[2].name = <<NonUtf8, Dot, "mp3">>
    /\ Len(files_to_stitch) = 1
    /\ failed_at = "BuildManifest"

\* ---------------------------------------------------------------- C10
\* C10: no entry that is not a regular file is in the list look_for_files
\* returns, whatever its name ends in.
C10_OnlyRegularFiles ==
    Listed =>
        \A j \in 1..Len(read_dir_result.entries) :
            LET e == read_dir_result.entries[j]
            IN  (e.ok /\ e.kind # "file") =>
                    join(InputPath, e.name) \notin Range(files_to_stitch)

====
